---- MODULE Spec2Model ----
(***************************************************************************)
(* Task lifecycle engine of the BT -> OneDrive service (src/main.py):      *)
(* the task store (self.tasks and tasks.json), add_task, and the two       *)
(* reconciliation phases process_pending_tasks and check_downloads, with   *)
(* the download client (scripts/bt_downloader_transmission.py) and the     *)
(* upload client (scripts/onedrive_uploader.py) as collaborators whose     *)
(* outcomes are chosen nondeterministically among those their code has.    *)
(***************************************************************************)
EXTENDS Integers, Sequences, FiniteSets, TLC

\* ------------------------------------------------------------------ bounds
\* time.time() is modelled by a counter that advances at every accepted
\* add_task; MaxClock bounds the number of accepted submissions of a run.
MaxClock == 3
\* progress is kept in tenths of a percent (transmission reports 0..100 %).
FinishedThreshold == 999

Sources == {"s1", "s2"}
Hashes == {"h1", "h2"}
\* texts of the exceptions add_torrent raises
AddErrors == {"bad torrent", "rpc down"}
\* progress values a poll can report: far below, just below, at and above the
\* threshold
ProgressLevels ==
    {0, FinishedThreshold - 1, FinishedThreshold, FinishedThreshold + 1}

VARIABLES
    tasks,            \* self.tasks of the service process
    file,             \* tasks.json on disk
    handles,          \* BTDownloader.handles of the service process (its keys)
    pc,               \* where the service process is
    pending_iter,     \* list(self.tasks['pending']) still to visit
    downloading_iter, \* list(self.tasks['downloading'].items()) still to visit
    clock,            \* time.time()
    add_ret,          \* what the last add_task call returned
    last_call,        \* the last collaborator call and its outcome
    finished_seen,    \* added_time of the tasks a poll reported finished for
    at_kill,          \* while the process is dead: the sources it held when killed
                      \* between operations or inside a tick
    u_op,             \* the call of the upload client under way, with its arguments
    u_stack,          \* the frames of the upload client's methods, innermost last
    u_log,            \* the HTTP requests and authentications of the call, in order
    u_ret,            \* what the call returned
    remote,           \* the folders of the remote drive
    sched_now,        \* datetime.now() of the process that runs run_scheduler
    interval,         \* CHECK_INTERVAL
    jobs,             \* schedule.jobs: the jobs made by every(...).do(...)
    sched_pc,         \* where run_scheduler is
    due,              \* the jobs run_pending still has to run in this pass
    phases,           \* the phases run so far, with their start and end
    cli_pc,           \* where the process of the 'add' command is
    cli_tasks,        \* self.tasks of the 'add' process
    cli_source,       \* the source given to the 'add' command
    cli_ret,          \* what add_task returned to the 'add' command
    called,           \* the add_torrent calls made so far, over all processes
    write_failed,     \* a write of _save_tasks has failed in the current tick
    uploads           \* the tasks the process has called the upload client for

svars == <<tasks, file, handles, pc, pending_iter, downloading_iter,
           clock, add_ret, last_call, finished_seen, at_kill>>

uvars == <<u_op, u_stack, u_log, u_ret, remote>>

tvars == <<sched_now, interval, jobs, sched_pc, due, phases>>

cvars == <<cli_pc, cli_tasks, cli_source, cli_ret>>

hvars == <<called, write_failed, uploads>>

vars == <<svars, uvars, tvars, cvars, hvars>>

\* ------------------------------------------------------------ dict helpers
\* d[k] = v on a Python dict held as a record
Put(r, k, v) == [f \in DOMAIN r \cup {k} |-> IF f = k THEN v ELSE r[f]]

Has(r, k) == k \in DOMAIN r

Range(s) == {s[i] : i \in DOMAIN s}

\* list.remove(x): drops the first element equal to x
RECURSIVE ListRemove(_, _)
ListRemove(s, x) ==
    IF s = <<>> THEN <<>>
    ELSE IF Head(s) = x THEN Tail(s)
    ELSE <<Head(s)>> \o ListRemove(Tail(s), x)

\* The downloading dict keeps insertion order: a sequence of [key, val].
DictKeys(d) == {d[i].key : i \in DOMAIN d}

DictGet(d, k) == (CHOOSE e \in Range(d) : e.key = k).val

\* d[k] = v: an existing key keeps its place and gets the new value
DictSet(d, k, v) ==
    IF k \in DictKeys(d)
    THEN [i \in DOMAIN d |-> IF d[i].key = k THEN [key |-> k, val |-> v] ELSE d[i]]
    ELSE Append(d, [key |-> k, val |-> v])

\* del d[k]
DictDel(d, k) == SelectSeq(d, LAMBDA e : e.key # k)

\* list(d.items()) as the keys in order; the values are the dict's own objects
DictItems(d) == [i \in DOMAIN d |-> d[i].key]

\* --------------------------------------------------------------- the store
EmptyStore ==
    [pending |-> <<>>, downloading |-> <<>>, completed |-> <<>>, failed |-> <<>>]

\* json.dump(self.tasks, f): strings, numbers, booleans, lists and dicts with
\* string keys are written as they are
Dump(store) == [kind |-> "json", data |-> store]

\* A file cut short by a kill in the middle of the write
Truncated == [kind |-> "truncated"]

Missing == [kind |-> "missing"]

\* _load_tasks
LoadTasks(f) == IF f.kind = "json" THEN f.data ELSE EmptyStore

\* A duplicate check that looks into the list buckets only
TaskExistsListsOnly(store, s) ==
    \/ \E i \in DOMAIN store.pending : store.pending[i].source = s
    \/ \E i \in DOMAIN store.completed : store.completed[i].source = s
    \/ \E i \in DOMAIN store.failed : store.failed[i].source = s

\* A duplicate check that lets a failed source be submitted again
TaskExistsNoFailed(store, s) ==
    \/ \E i \in DOMAIN store.pending : store.pending[i].source = s
    \/ \E i \in DOMAIN store.downloading : store.downloading[i].val.source = s
    \/ \E i \in DOMAIN store.completed : store.completed[i].source = s

\* The duplicate check of add_task: the list buckets by element, the dict
\* bucket by value
TaskExists(store, s) ==
    \/ \E i \in DOMAIN store.pending : store.pending[i].source = s
    \/ \E i \in DOMAIN store.downloading : store.downloading[i].val.source = s
    \/ \E i \in DOMAIN store.completed : store.completed[i].source = s
    \/ \E i \in DOMAIN store.failed : store.failed[i].source = s

NoCall == [fn |-> "none"]

\* No call of the upload client is under way, nothing was returned
NoOp == [name |-> "none"]

NoRet == [kind |-> "none"]

\* No call of the upload client
UploaderOff ==
    /\ u_op = NoOp
    /\ u_stack = <<>>
    /\ u_log = <<>>
    /\ u_ret = NoRet
    /\ remote = {}

\* run_scheduler was not called
SchedulerOff ==
    /\ sched_now = 0
    /\ interval = 0
    /\ jobs = <<>>
    /\ sched_pc = "off"
    /\ due = <<>>
    /\ phases = <<>>

\* No 'add' command is running
CliOff ==
    /\ cli_pc = "off"
    /\ cli_tasks = EmptyStore
    /\ cli_source = ""
    /\ cli_ret = FALSE

\* No add_torrent call was made and no write has failed
HistoryOff ==
    /\ called = {}
    /\ write_failed = FALSE
    /\ uploads = {}

TypeOK ==
    /\ pc \in {"idle", "add_save", "dispatch", "dispatch_save", "poll",
               "poll_save", "finish", "finish_save", "dead"}
    /\ clock \in 0..MaxClock
    /\ handles \subseteq Hashes
    /\ add_ret \in BOOLEAN

Init ==
    /\ file = Missing
    /\ tasks = LoadTasks(Missing)
    /\ handles = {}
    /\ pc = "idle"
    /\ pending_iter = <<>>
    /\ downloading_iter = <<>>
    /\ clock = 0
    /\ add_ret = FALSE
    /\ last_call = NoCall
    /\ finished_seen = {}
    /\ at_kill = {}
    /\ UploaderOff
    /\ SchedulerOff
    /\ CliOff
    /\ HistoryOff

\* ----------------------------------------------------------------- add_task
\* add_task up to the call of _save_tasks
AddTask(s) ==
    /\ pc = "idle"
    /\ IF TaskExists(tasks, s)
       THEN /\ add_ret' = FALSE
            /\ UNCHANGED <<tasks, clock, pc>>
       ELSE /\ clock < MaxClock
            /\ clock' = clock + 1
            /\ tasks' = [tasks EXCEPT !.pending =
                            Append(@, [source |-> s, added_time |-> clock'])]
            /\ add_ret' = TRUE
            /\ pc' = "add_save"
    /\ UNCHANGED <<file, handles, pending_iter, downloading_iter,
                   last_call, finished_seen, at_kill>>
    /\ UNCHANGED <<uvars, tvars, cvars, hvars>>

\* _save_tasks: open(..., 'w') and json.dump
SaveTasks(next_pc) ==
    /\ file' = Dump(tasks)
    /\ pc' = next_pc
    /\ UNCHANGED <<tasks, handles, clock, add_ret, last_call, finished_seen,
                   at_kill>>
    /\ UNCHANGED <<uvars, tvars, cvars, hvars>>

AddTaskSave ==
    /\ pc = "add_save"
    /\ SaveTasks("idle")
    /\ UNCHANGED <<pending_iter, downloading_iter>>

\* ------------------------------------------------- the download client
\* What add_torrent can do: return torrent.hashString or raise
AddTorrentOutcomes ==
    {[raised |-> FALSE, hash |-> h] : h \in Hashes}
        \cup {[raised |-> TRUE, exc |-> m] : m \in AddErrors}

\* A status whose finished flag is set one step of progress too early
StatusLowThreshold(h, p) ==
    [info_hash |-> h, progress |-> p, is_finished |-> p >= FinishedThreshold - 1]

\* The status dict of get_torrent_status for a progress p
Status(h, p) ==
    [info_hash |-> h, progress |-> p, is_finished |-> p >= FinishedThreshold]

NotFound == [error |-> "Torrent not found"]

\* What get_torrent_status(h) can do: the error dict for an unknown handle,
\* else the snapshot of the torrent at whatever progress the daemon reports,
\* or session.get_torrent raises
GetStatusOutcomes(h) ==
    IF h \notin handles
    THEN {[raised |-> FALSE, status |-> NotFound]}
    ELSE {[raised |-> FALSE, status |-> Status(h, p)] : p \in ProgressLevels}
            \cup {[raised |-> TRUE, exc |-> "rpc error"]}

\* status.get('is_finished', False)
IsFinished(status) == Has(status, "is_finished") /\ status.is_finished

\* --------------------------------------------------- the upload client
\* What upload_file returns: the item descriptor of the remote store or an
\* error dict
UploadFileResults == {[id |-> "item"], [error |-> "chunk 507"]}

\* What upload_folder returns: its summary (which always has both lists) or
\* the error dict of the folder creation
UploadFolderResults ==
    {[success |-> <<"f1">>, error |-> <<>>],
     [success |-> <<>>, error |-> <<"f1">>],
     [error |-> "create folder 507"]}

\* get_download_path, os.path.isdir and the upload call: the path lookup
\* raises, or the path is a file or a directory and the upload returns or
\* raises
FinishOutcomes ==
    {[path_raised |-> TRUE]}
        \cup {[path_raised |-> FALSE, kind |-> "file", raised |-> FALSE, result |-> r] :
                r \in UploadFileResults}
        \cup {[path_raised |-> FALSE, kind |-> "dir", raised |-> FALSE, result |-> r] :
                r \in UploadFolderResults}
        \cup {[path_raised |-> FALSE, kind |-> k, raised |-> TRUE] : k \in {"file", "dir"}}

\* ------------------------------------------------ process_pending_tasks
\* Lines 116-119: the snapshot list(self.tasks['pending'])
ProcessPendingTasks ==
    /\ pc = "idle"
    /\ pending_iter' = tasks.pending
    /\ pc' = "dispatch"
    /\ write_failed' = FALSE
    /\ UNCHANGED <<tasks, file, handles, downloading_iter, clock,
                   add_ret, last_call, finished_seen, at_kill, called, uploads>>
    /\ UNCHANGED <<uvars, tvars, cvars>>

\* The move to downloading without the removal from pending
MoveToDownloadingKeepPending(store, task, h, now) ==
    [store EXCEPT
        !.downloading = DictSet(@, h, [source |-> task.source,
                                       start_time |-> now,
                                       added_time |-> task.added_time])]

\* The store after add_torrent returned info_hash h for task (lines 125-131)
MoveToDownloading(store, task, h, now) ==
    [store EXCEPT
        !.downloading = DictSet(@, h, [source |-> task.source,
                                       start_time |-> now,
                                       added_time |-> task.added_time]),
        !.pending = ListRemove(@, task)]

\* A move to failed that records a fixed text instead of the exception's
MoveToFailedFixedText(store, task, m) ==
    LET failedTask == Put(task, "error", "failed")
    IN [store EXCEPT !.failed = Append(@, failedTask),
                     !.pending = ListRemove(@, task)]

\* The store after add_torrent raised with text m for task (lines 139-141):
\* the task object itself gets the error, is appended to failed and removed
MoveToFailed(store, task, m) ==
    LET failedTask == Put(task, "error", m)
        mutated == [i \in DOMAIN store.pending |->
                       IF store.pending[i] = task THEN failedTask
                       ELSE store.pending[i]]
    IN [store EXCEPT !.failed = Append(@, failedTask),
                     !.pending = ListRemove(mutated, failedTask)]

\* One iteration of the loop up to _save_tasks (lines 119-131, 135-141)
DispatchCall(out) ==
    /\ pc = "dispatch"
    /\ pending_iter # <<>>
    /\ LET task == Head(pending_iter) IN
          /\ last_call' = [fn |-> "add_torrent", task |-> task.added_time,
                           arg |-> task.source, out |-> out]
          /\ IF out.raised
             THEN /\ tasks' = MoveToFailed(tasks, task, out.exc)
                  /\ UNCHANGED handles
             ELSE /\ tasks' = MoveToDownloading(tasks, task, out.hash, clock)
                  /\ handles' = handles \cup {out.hash}
    /\ called' = called \cup {[task |-> Head(pending_iter).added_time,
                                 source |-> Head(pending_iter).source]}
    /\ pending_iter' = Tail(pending_iter)
    /\ pc' = "dispatch_save"
    /\ UNCHANGED <<file, downloading_iter, clock, add_ret, finished_seen,
                   at_kill, write_failed, uploads>>
    /\ UNCHANGED <<uvars, tvars, cvars>>

\* _save_tasks of lines 132 and 142
DispatchSave ==
    /\ pc = "dispatch_save"
    /\ SaveTasks("dispatch")
    /\ UNCHANGED <<pending_iter, downloading_iter>>

\* ------------------------------------------------------ check_downloads
\* Lines 146-149, reached when process_pending_tasks returns: the snapshot
\* list(self.tasks['downloading'].items())
CheckDownloads ==
    /\ pc = "dispatch"
    /\ pending_iter = <<>>
    /\ downloading_iter' = DictItems(tasks.downloading)
    /\ pc' = "poll"
    /\ UNCHANGED <<tasks, file, handles, pending_iter, clock, add_ret,
                   last_call, finished_seen, at_kill>>
    /\ UNCHANGED <<uvars, tvars, cvars, hvars>>

\* A poll that fails the task when the status it got is an error dict
RecordStatusFailOnError(store, h, status) ==
    IF Has(status, "error")
    THEN [store EXCEPT
            !.failed = Append(@, Put(DictGet(store.downloading, h), "error",
                                     status.error)),
            !.downloading = DictDel(@, h)]
    ELSE [store EXCEPT !.downloading =
            DictSet(@, h, Put(DictGet(@, h), "status", status))]

\* task['status'] = status (line 154)
RecordStatus(store, h, status) ==
    [store EXCEPT !.downloading =
        DictSet(@, h, Put(DictGet(@, h), "status", status))]

\* Lines 151-154, and the except of line 190 when the call raises
PollCall(out) ==
    /\ pc = "poll"
    /\ downloading_iter # <<>>
    /\ LET h == Head(downloading_iter)
           task == DictGet(tasks.downloading, h)
       IN /\ out \in GetStatusOutcomes(h)
          /\ last_call' = [fn |-> "get_torrent_status", task |-> task.added_time,
                           arg |-> h, out |-> out]
          /\ IF out.raised
             THEN /\ pc' = "poll"
                  /\ downloading_iter' = Tail(downloading_iter)
                  /\ UNCHANGED <<tasks, finished_seen>>
             ELSE /\ tasks' = RecordStatus(tasks, h, out.status)
                  /\ finished_seen' = IF IsFinished(out.status)
                                      THEN finished_seen \cup {task.added_time}
                                      ELSE finished_seen
                  /\ pc' = "poll_save"
                  /\ UNCHANGED downloading_iter
    /\ UNCHANGED <<file, handles, pending_iter, clock, add_ret, at_kill>>
    /\ UNCHANGED <<uvars, tvars, cvars, hvars>>

\* _save_tasks of line 155 and the test of line 158
PollSave ==
    /\ pc = "poll_save"
    /\ LET h == Head(downloading_iter) IN
          IF IsFinished(DictGet(tasks.downloading, h).status)
          THEN /\ SaveTasks("finish")
               /\ UNCHANGED downloading_iter
          ELSE /\ SaveTasks("poll")
               /\ downloading_iter' = Tail(downloading_iter)
    /\ UNCHANGED pending_iter

\* A completion that drops the upload result
MoveToCompletedNoResult(store, h, has_result, result, now) ==
    LET done == Put(DictGet(store.downloading, h), "complete_time", now)
    IN [store EXCEPT !.completed = Append(@, done),
                     !.downloading = DictDel(@, h)]

\* A completion that fails the task when the upload result is an error dict
MoveToCompletedFailOnError(store, h, has_result, result, now) ==
    LET task == DictGet(store.downloading, h)
        uploaded == IF has_result THEN Put(task, "upload_result", result) ELSE task
        done == Put(uploaded, "complete_time", now)
    IN IF has_result /\ Has(result, "error")
       THEN [store EXCEPT !.failed = Append(@, done),
                          !.downloading = DictDel(@, h)]
       ELSE [store EXCEPT !.completed = Append(@, done),
                          !.downloading = DictDel(@, h)]

\* A completion that leaves the record, with its upload result, in downloading
MoveToCompletedKeepDownloading(store, h, has_result, result, now) ==
    LET task == DictGet(store.downloading, h)
        uploaded == IF has_result THEN Put(task, "upload_result", result) ELSE task
        done == Put(uploaded, "complete_time", now)
    IN [store EXCEPT !.completed = Append(@, done),
                     !.downloading = DictSet(@, h, uploaded)]

\* The store after lines 173-183: upload_result when the path resolved, the
\* completion time, the move to completed
MoveToCompleted(store, h, has_result, result, now) ==
    LET task == DictGet(store.downloading, h)
        uploaded == IF has_result THEN Put(task, "upload_result", result) ELSE task
        done == Put(uploaded, "complete_time", now)
    IN [store EXCEPT !.completed = Append(@, done),
                     !.downloading = DictDel(@, h)]

\* Lines 162-183, and the except of line 190 when a call raises
Finish(out) ==
    /\ pc = "finish"
    /\ LET h == Head(downloading_iter)
           task == DictGet(tasks.downloading, h)
       IN IF h \notin handles
          THEN \* get_download_path returns None: no upload
               /\ tasks' = MoveToCompleted(tasks, h, FALSE, NotFound, clock)
               /\ pc' = "finish_save"
               /\ UNCHANGED <<last_call, downloading_iter>>
          ELSE IF out.path_raised
          THEN /\ pc' = "poll"
               /\ downloading_iter' = Tail(downloading_iter)
               /\ UNCHANGED <<tasks, last_call>>
          ELSE /\ last_call' = [fn |-> IF out.kind = "dir" THEN "upload_folder"
                                       ELSE "upload_file",
                                task |-> task.added_time, arg |-> h, out |-> out]
               /\ IF out.raised
                  THEN /\ pc' = "poll"
                       /\ downloading_iter' = Tail(downloading_iter)
                       /\ UNCHANGED tasks
                  ELSE /\ tasks' = MoveToCompleted(tasks, h, TRUE, out.result, clock)
                       /\ pc' = "finish_save"
                       /\ UNCHANGED downloading_iter
    /\ uploads' = IF Head(downloading_iter) \in handles /\ ~out.path_raised
                  THEN uploads \cup
                       {DictGet(tasks.downloading, Head(downloading_iter)).added_time}
                  ELSE uploads
    /\ UNCHANGED <<file, handles, pending_iter, clock, add_ret, finished_seen,
                   at_kill, called, write_failed>>
    /\ UNCHANGED <<uvars, tvars, cvars>>

\* _save_tasks of line 188
FinishSave ==
    /\ pc = "finish_save"
    /\ SaveTasks("poll")
    /\ downloading_iter' = Tail(downloading_iter)
    /\ UNCHANGED pending_iter

\* check_downloads returns: the tick is over
TickDone ==
    /\ pc = "poll"
    /\ downloading_iter = <<>>
    /\ pc' = "idle"
    /\ UNCHANGED <<tasks, file, handles, pending_iter, downloading_iter,
                   clock, add_ret, last_call, finished_seen, at_kill>>
    /\ UNCHANGED <<uvars, tvars, cvars, hvars>>

\* --------------------------------------------------- kill and restart
SavePcs == {"add_save", "dispatch_save", "poll_save", "finish_save"}

\* How often source s occurs in the four buckets of a store
Occurrences(store, s) ==
    Cardinality({i \in DOMAIN store.pending : store.pending[i].source = s})
    + Cardinality({i \in DOMAIN store.downloading :
                      store.downloading[i].val.source = s})
    + Cardinality({i \in DOMAIN store.completed : store.completed[i].source = s})
    + Cardinality({i \in DOMAIN store.failed : store.failed[i].source = s})

\* The sources of the tasks the process holds in one bucket
HeldSources == {s \in Sources : Occurrences(tasks, s) = 1}

\* The process is killed; its memory is gone, the file stays as it is
Die ==
    /\ pc' = "dead"
    /\ at_kill' = IF pc = "add_save" THEN {} ELSE HeldSources
    /\ tasks' = EmptyStore
    /\ handles' = {}
    /\ pending_iter' = <<>>
    /\ downloading_iter' = <<>>
    /\ add_ret' = FALSE
    /\ last_call' = NoCall
    /\ finished_seen' = {}
    /\ uploads' = {}
    /\ UNCHANGED <<clock, called, write_failed>>
    /\ UNCHANGED <<uvars, tvars, cvars>>

\* Killed at any point outside the write of _save_tasks
Kill ==
    /\ pc # "dead"
    /\ Die
    /\ UNCHANGED file

\* Killed inside _save_tasks, after open(..., 'w') emptied the file and
\* before json.dump wrote all of it (lines 77-78)
KillDuringSave ==
    /\ pc \in SavePcs
    /\ Die
    /\ file' = Truncated

\* A new process: __init__ loads the store (line 53), the downloader starts
\* with no handles
Restart ==
    /\ pc = "dead"
    /\ tasks' = LoadTasks(file)
    /\ pc' = "idle"
    /\ at_kill' = {}
    /\ UNCHANGED <<file, handles, pending_iter, downloading_iter, clock,
                   add_ret, last_call, finished_seen>>
    /\ UNCHANGED <<uvars, tvars, cvars, hvars>>

\* ------------------------------------------------------ specifications
Next ==
    \/ \E s \in Sources : AddTask(s)
    \/ AddTaskSave
    \/ ProcessPendingTasks
    \/ \E out \in AddTorrentOutcomes : DispatchCall(out)
    \/ DispatchSave
    \/ CheckDownloads
    \/ \E out \in UNION {GetStatusOutcomes(h) : h \in Hashes} : PollCall(out)
    \/ PollSave
    \/ \E out \in FinishOutcomes : Finish(out)
    \/ FinishSave
    \/ TickDone

\* One service process: add_task calls and ticks
Spec == Init /\ [][Next]_vars

NextCrash ==
    \/ Next
    \/ Kill
    \/ KillDuringSave
    \/ Restart

\* Processes that are killed and started again over the same tasks.json
SpecCrash == Init /\ [][NextCrash]_vars

\* The happy path: add_torrent accepts and returns the id of a new transfer,
\* polls return the daemon's snapshot, the path resolves and the upload
\* returns the item descriptor (of a file) or a summary without failed files
\* (of a directory)
HappyFinishOutcomes ==
    {[path_raised |-> FALSE, kind |-> "file", raised |-> FALSE, result |-> [id |-> "item"]],
     [path_raised |-> FALSE, kind |-> "dir", raised |-> FALSE,
      result |-> [success |-> <<"f1">>, error |-> <<>>]]}

HappyTick ==
    \/ AddTaskSave
    \/ ProcessPendingTasks
    \/ \E h \in Hashes \ handles : DispatchCall([raised |-> FALSE, hash |-> h])
    \/ DispatchSave
    \/ CheckDownloads
    \/ \E out \in UNION {GetStatusOutcomes(h) : h \in Hashes} :
          ~out.raised /\ PollCall(out)
    \/ PollSave
    \/ \E out \in HappyFinishOutcomes : Finish(out)
    \/ FinishSave
    \/ TickDone

NextHappy ==
    \/ \E s \in Sources : AddTask(s)
    \/ HappyTick

\* A poll of transfer h that reports it finished
FinishedPoll(h) ==
    \E p \in ProgressLevels :
        /\ p >= FinishedThreshold
        /\ PollCall([raised |-> FALSE, status |-> Status(h, p)])

\* run_scheduler keeps ticking, and the polls of a transfer that is polled
\* again and again report it finished at some time
SpecHappy ==
    /\ Init
    /\ [][NextHappy]_vars
    /\ WF_vars(HappyTick)
    /\ \A h \in Hashes : SF_vars(FinishedPoll(h))

\* ------------------------------------------------ the upload client
\* if file_size <= 4 * 1024 * 1024 (upload_file)
SimpleLimit == 4194304
\* chunk_size = 10 * 1024 * 1024 (_chunked_upload)
ChunkSize == 10485760
\* The largest files have MaxChunks chunks and one byte more
MaxChunks == 3

\* Sizes of the local file: around the limit of the simple upload and around
\* every multiple of the chunk size
FileSizes ==
    {0, 1, SimpleLimit - 1, SimpleLimit, SimpleLimit + 1}
        \cup {k * ChunkSize + d : k \in 1..MaxChunks, d \in {-1, 0, 1}}

\* self.upload_folder, as the parts of '/BTDownloads'.split('/') once the
\* leading slash is removed
UploadFolder == <<"BTDownloads">>

Min(a, b) == IF a <= b THEN a ELSE b

AuthFailed == [error |-> "Authentication failed"]

\* The name the drive gives a new folder whose name is taken
\* (conflictBehavior "rename")
Renamed(name) ==
    CASE name = "BTDownloads" -> "BTDownloads 1"
      [] name = "a" -> "a 1"
      [] name = "b" -> "b 1"
      [] name = "c" -> "c 1"
      [] OTHER -> "copy"

Top == u_stack[Len(u_stack)]

SetTop(frame) == [u_stack EXCEPT ![Len(u_stack)] = frame]

\* A method calls another: the caller waits at pc next for the value
CallFrom(frame, next, callee) ==
    Append(SetTop([frame EXCEPT !.pc = next]), callee)

\* The stack once the innermost method returned v: the caller has it as got
StackAfterReturn(v) ==
    IF Len(u_stack) = 1 THEN <<>>
    ELSE LET rest == SubSeq(u_stack, 1, Len(u_stack) - 1)
         IN [rest EXCEPT ![Len(rest)] = Put(@, "got", v)]

Return(v) ==
    /\ u_stack' = StackAfterReturn(v)
    /\ u_ret' = IF Len(u_stack) = 1 THEN v ELSE u_ret

GetItemFrame(path) == [fn |-> "get_item_by_path", pc |-> "auth", path |-> path]

CreateFolderFrame(parts) ==
    [fn |-> "create_folder", pc |-> "auth", folder_path |-> parts,
     parts |-> parts, current_path |-> <<>>, has_parent |-> FALSE,
     parent_id |-> <<>>]

UploadFileFrame(size, dest) ==
    [fn |-> "upload_file", pc |-> "auth", size |-> size, dest |-> dest,
     chunk_num |-> 0]

\* if not self.is_authenticated(): if not self.authenticate(): return
\* {"error": "Authentication failed"}, the first lines of get_item_by_path,
\* create_folder and upload_file
Authenticate(valid, reauth) ==
    /\ u_stack # <<>>
    /\ Top.pc = "auth"
    /\ IF valid
       THEN /\ u_stack' = SetTop([Top EXCEPT !.pc = "body"])
            /\ UNCHANGED <<u_log, u_ret>>
       ELSE /\ u_log' = Append(u_log, [ev |-> "authenticate", by |-> Top.fn,
                                       ok |-> reauth])
            /\ IF reauth
               THEN /\ u_stack' = SetTop([Top EXCEPT !.pc = "body"])
                    /\ UNCHANGED u_ret
               ELSE Return(AuthFailed)
    /\ UNCHANGED <<u_op, remote>>
    /\ UNCHANGED <<svars, tvars, cvars, hvars>>

\* The drive's answers to GET /me/drive/root:/path: 200 for an item it has
\* (the root is the empty path), 404 for one it has not, 503 when it is out
GetStatuses(path) ==
    (IF path = <<>> \/ path \in remote THEN {200} ELSE {404}) \cup {503}

\* The path of the URL: the parts without the empty ones ('a//b', 'a/')
RECURSIVE UrlPath(_)
UrlPath(parts) ==
    IF parts = <<>> THEN <<>>
    ELSE IF Head(parts) = "" THEN UrlPath(Tail(parts))
    ELSE <<Head(parts)>> \o UrlPath(Tail(parts))

\* get_item_by_path after the authentication: the GET and its two returns
GetItem(status) ==
    /\ u_stack # <<>>
    /\ Top.fn = "get_item_by_path"
    /\ Top.pc = "body"
    /\ status \in GetStatuses(UrlPath(Top.path))
    /\ u_log' = Append(u_log, [ev |-> "http", by |-> Top.fn, method |-> "GET",
                               kind |-> "lookup", to |-> UrlPath(Top.path),
                               status |-> status])
    /\ IF status = 200
       THEN Return([id |-> UrlPath(Top.path)])
       ELSE Return([error |-> "Failed to get item", status |-> status])
    /\ UNCHANGED <<u_op, remote>>
    /\ UNCHANGED <<svars, tvars, cvars, hvars>>

\* create_folder, the head of the loop over the parts (lines 171-178) and the
\* return after it (line 210)
CreateFolderStep ==
    /\ u_stack # <<>>
    /\ Top.fn = "create_folder"
    /\ Top.pc = "body"
    /\ IF Top.parts = <<>>
       THEN u_stack' = SetTop(GetItemFrame(Top.folder_path))
       ELSE IF Head(Top.parts) = ""
       THEN u_stack' = SetTop([Top EXCEPT !.parts = Tail(@)])
       ELSE LET path == Append(Top.current_path, Head(Top.parts))
            IN u_stack' = CallFrom([Top EXCEPT !.current_path = path],
                                   "looked", GetItemFrame(path))
    /\ UNCHANGED <<u_op, u_log, u_ret, remote>>
    /\ UNCHANGED <<svars, tvars, cvars, hvars>>

\* The folder a creation POST makes: under the parent found or made last, or
\* under the root, renamed when the name is taken
NewFolder(frame) ==
    LET parent == IF frame.has_parent THEN frame.parent_id ELSE <<>>
        name == Head(frame.parts)
    IN IF Append(parent, name) \in remote
       THEN Append(parent, Renamed(name))
       ELSE Append(parent, name)

\* A creation that does not look at what the lookup returned
CreateFolderLookedAlwaysCreate(status) ==
    /\ u_stack # <<>>
    /\ Top.fn = "create_folder"
    /\ Top.pc = "looked"
    /\ u_log' = Append(u_log, [ev |-> "http", by |-> Top.fn,
                               method |-> "POST", kind |-> "folder",
                               to |-> NewFolder(Top), status |-> status])
    /\ IF status = 201
       THEN /\ remote' = remote \cup {NewFolder(Top)}
            /\ u_stack' = SetTop([Top EXCEPT !.has_parent = TRUE,
                                             !.parent_id = NewFolder(Top),
                                             !.parts = Tail(@),
                                             !.pc = "body"])
            /\ UNCHANGED u_ret
       ELSE /\ Return([error |-> "Failed to create folder", status |-> status])
            /\ UNCHANGED remote
    /\ UNCHANGED u_op
    /\ UNCHANGED <<svars, tvars, cvars, hvars>>

\* create_folder once the lookup of a part returned (lines 179-208): the part
\* exists, or it is created by a POST that the drive answers with status
CreateFolderLooked(status) ==
    /\ u_stack # <<>>
    /\ Top.fn = "create_folder"
    /\ Top.pc = "looked"
    /\ IF ~Has(Top.got, "error")
       THEN /\ u_stack' = SetTop([Top EXCEPT !.has_parent = TRUE,
                                             !.parent_id = Top.got.id,
                                             !.parts = Tail(@),
                                             !.pc = "body"])
            /\ UNCHANGED <<u_log, u_ret, remote>>
       ELSE /\ u_log' = Append(u_log, [ev |-> "http", by |-> Top.fn,
                                       method |-> "POST", kind |-> "folder",
                                       to |-> NewFolder(Top), status |-> status])
            /\ IF status = 201
               THEN /\ remote' = remote \cup {NewFolder(Top)}
                    /\ u_stack' = SetTop([Top EXCEPT !.has_parent = TRUE,
                                                     !.parent_id = NewFolder(Top),
                                                     !.parts = Tail(@),
                                                     !.pc = "body"])
                    /\ UNCHANGED u_ret
               ELSE /\ Return([error |-> "Failed to create folder",
                               status |-> status])
                    /\ UNCHANGED remote
    /\ UNCHANGED u_op
    /\ UNCHANGED <<svars, tvars, cvars, hvars>>

\* upload_file, line 268: the destination folder is ensured
UploadFileEnsure ==
    /\ u_stack # <<>>
    /\ Top.fn = "upload_file"
    /\ Top.pc = "body"
    /\ u_stack' = CallFrom(Top, "ensured", CreateFolderFrame(Top.dest))
    /\ UNCHANGED <<u_op, u_log, u_ret, remote>>
    /\ UNCHANGED <<svars, tvars, cvars, hvars>>

\* A choice of strategy whose limit is exclusive
StrategyExclusive(size) == IF size < SimpleLimit THEN "simple" ELSE "session"

\* if file_size <= 4 * 1024 * 1024 (line 277)
Strategy(size) == IF size <= SimpleLimit THEN "simple" ELSE "session"

\* upload_file, lines 269-281
UploadFileStrategy ==
    /\ u_stack # <<>>
    /\ Top.fn = "upload_file"
    /\ Top.pc = "ensured"
    /\ IF Has(Top.got, "error")
       THEN Return(Top.got)
       ELSE /\ u_stack' = SetTop([Top EXCEPT !.pc = Strategy(Top.size)])
            /\ UNCHANGED u_ret
    /\ UNCHANGED <<u_op, u_log, remote>>
    /\ UNCHANGED <<svars, tvars, cvars, hvars>>

\* _simple_upload: one PUT to the content URL
SimpleUpload(status) ==
    /\ u_stack # <<>>
    /\ Top.fn = "upload_file"
    /\ Top.pc = "simple"
    /\ u_log' = Append(u_log, [ev |-> "http", by |-> Top.fn, method |-> "PUT",
                               kind |-> "content", status |-> status])
    /\ IF status \in {200, 201}
       THEN Return([id |-> "item"])
       ELSE Return([error |-> "Failed to upload file", status |-> status])
    /\ UNCHANGED <<u_op, remote>>
    /\ UNCHANGED <<svars, tvars, cvars, hvars>>

\* _chunked_upload, lines 346-353: the upload session
CreateSession(status) ==
    /\ u_stack # <<>>
    /\ Top.fn = "upload_file"
    /\ Top.pc = "session"
    /\ u_log' = Append(u_log, [ev |-> "http", by |-> Top.fn, method |-> "POST",
                               kind |-> "createUploadSession", status |-> status])
    /\ IF status # 200
       THEN Return([error |-> "Failed to create upload session",
                    status |-> status])
       ELSE /\ u_stack' = SetTop([Top EXCEPT !.pc = "chunk", !.chunk_num = 0])
            /\ UNCHANGED u_ret
    /\ UNCHANGED <<u_op, remote>>
    /\ UNCHANGED <<svars, tvars, cvars, hvars>>

\* total_chunks = (file_size + chunk_size - 1) // chunk_size
TotalChunks(size) == (size + ChunkSize - 1) \div ChunkSize

\* A last byte that is one past the chunk
ChunkEndExclusive(size, k) == Min(size, k * ChunkSize + ChunkSize)

\* end = min(file_size, start + chunk_size) - 1
ChunkEnd(size, k) == Min(size, k * ChunkSize + ChunkSize) - 1

\* A reaction to the chunk's answer that goes on after a 200 or 201
AfterChunkNeverDone(status) ==
    IF status \in {200, 201, 202} THEN "next" ELSE "abort"

\* What the answer to a chunk PUT makes of the loop (lines 384-395)
AfterChunk(status) ==
    IF status \in {200, 201} THEN "done"
    ELSE IF status = 202 THEN "next"
    ELSE "abort"

\* _chunked_upload, one turn of the loop of lines 364-395, and line 400 when
\* the loop is over
ChunkPut(status) ==
    /\ u_stack # <<>>
    /\ Top.fn = "upload_file"
    /\ Top.pc = "chunk"
    /\ IF Top.chunk_num >= TotalChunks(Top.size)
       THEN /\ Return([error |-> "Upload completed but no confirmation received"])
            /\ UNCHANGED u_log
       ELSE LET start == Top.chunk_num * ChunkSize
                end == ChunkEnd(Top.size, Top.chunk_num)
            IN /\ u_log' = Append(u_log,
                      [ev |-> "http", by |-> Top.fn, method |-> "PUT",
                       kind |-> "chunk", start |-> start, end |-> end,
                       total |-> Top.size, length |-> end - start + 1,
                       data |-> Min(ChunkSize, Top.size - start),
                       status |-> status])
               /\ CASE AfterChunk(status) = "done" -> Return([id |-> "item"])
                    [] AfterChunk(status) = "next" ->
                        /\ u_stack' = SetTop([Top EXCEPT !.chunk_num = @ + 1])
                        /\ UNCHANGED u_ret
                    [] OTHER ->
                        Return([error |-> "Failed chunk upload", status |-> status])
    /\ UNCHANGED <<u_op, remote>>
    /\ UNCHANGED <<svars, tvars, cvars, hvars>>

\* The innermost method is about to send a request (requests.get, .post,
\* .put) or, for an upload, to open the local file
AtRequest ==
    \/ Top.fn = "get_item_by_path" /\ Top.pc = "body"
    \/ Top.fn = "create_folder" /\ Top.pc = "looked" /\ Has(Top.got, "error")
    \/ Top.fn = "upload_file" /\ Top.pc \in {"simple", "session"}
    \/ Top.fn = "upload_file" /\ Top.pc = "chunk"
          /\ Top.chunk_num < TotalChunks(Top.size)

\* The request raises (no connection, a file that cannot be opened): no
\* method of the client catches it, the call ends with the exception
RequestRaises ==
    /\ u_stack # <<>>
    /\ AtRequest
    /\ u_stack' = <<>>
    /\ u_ret' = [raised |-> TRUE, by |-> Top.fn]
    /\ UNCHANGED <<u_op, u_log, remote>>
    /\ UNCHANGED <<svars, tvars, cvars, hvars>>

\* The local folder: its files as os.walk gives them, each with the
\* directory it is in relative to the folder ('' for the folder itself)
UploadFolderFrame(files) ==
    [fn |-> "upload_folder", pc |-> "body", files |-> files,
     target |-> Append(UploadFolder, "d"), success |-> <<>>, error |-> <<>>]

\* upload_folder, lines 416-421: the target folder is ensured
UploadFolderEnsure ==
    /\ u_stack # <<>>
    /\ Top.fn = "upload_folder"
    /\ Top.pc = "body"
    /\ u_stack' = CallFrom(Top, "ensured", CreateFolderFrame(Top.target))
    /\ UNCHANGED <<u_op, u_log, u_ret, remote>>
    /\ UNCHANGED <<svars, tvars, cvars, hvars>>

\* upload_folder, lines 422-428
UploadFolderEnsured ==
    /\ u_stack # <<>>
    /\ Top.fn = "upload_folder"
    /\ Top.pc = "ensured"
    /\ IF Has(Top.got, "error")
       THEN Return(Top.got)
       ELSE /\ u_stack' = SetTop([Top EXCEPT !.pc = "walk"])
            /\ UNCHANGED u_ret
    /\ UNCHANGED <<u_op, u_log, remote>>
    /\ UNCHANGED <<svars, tvars, cvars, hvars>>

\* upload_folder, lines 445-454: the result of a file goes to one of the lists
UploadFolderUploaded ==
    /\ u_stack # <<>>
    /\ Top.fn = "upload_folder"
    /\ Top.pc = "uploaded"
    /\ LET f == Head(Top.files) IN
          IF Has(Top.got, "error")
          THEN u_stack' = SetTop([Top EXCEPT
                  !.error = Append(@, [file |-> f.name, error |-> Top.got.error]),
                  !.files = Tail(@), !.pc = "walk"])
          ELSE u_stack' = SetTop([Top EXCEPT
                  !.success = Append(@, [file |-> f.name, result |-> Top.got]),
                  !.files = Tail(@), !.pc = "walk"])
    /\ UNCHANGED <<u_op, u_log, u_ret, remote>>
    /\ UNCHANGED <<svars, tvars, cvars, hvars>>

\* upload_folder, lines 431-443 and 456: the next file of the walk is handed
\* to upload_file with the folder it goes to, or the walk is over
UploadFolderNext ==
    /\ u_stack # <<>>
    /\ Top.fn = "upload_folder"
    /\ Top.pc = "walk"
    /\ IF Top.files = <<>>
       THEN /\ Return([success |-> Top.success, error |-> Top.error])
            /\ UNCHANGED u_log
       ELSE LET f == Head(Top.files) IN
            /\ u_stack' = CallFrom(Top, "uploaded",
                              UploadFileFrame(f.size, Append(Top.target, f.dir)))
            /\ u_log' = Append(u_log, [ev |-> "upload_file", file |-> f.name])
            /\ UNCHANGED u_ret
    /\ UNCHANGED <<u_op, remote>>
    /\ UNCHANGED <<svars, tvars, cvars, hvars>>

\* What the drive answers to a PUT or POST of the client
PutStatuses == {200, 201, 202, 507}

PostStatuses == {200, 201, 503}

ServiceIdle ==
    /\ file = Missing
    /\ tasks = LoadTasks(Missing)
    /\ handles = {}
    /\ pc = "idle"
    /\ pending_iter = <<>>
    /\ downloading_iter = <<>>
    /\ clock = 0
    /\ add_ret = FALSE
    /\ last_call = NoCall
    /\ finished_seen = {}
    /\ at_kill = {}

\* upload_file(file_path) is called for a local file of some size; the
\* destination folder is on the drive or not
InitUploadFile ==
    /\ ServiceIdle
    /\ SchedulerOff
    /\ CliOff
    /\ HistoryOff
    /\ \E size \in FileSizes :
          /\ u_op = [name |-> "upload_file", size |-> size]
          /\ u_stack = <<UploadFileFrame(size, UploadFolder)>>
    /\ u_log = <<>>
    /\ u_ret = NoRet
    /\ remote \in {{}, {UploadFolder}}

NextUploadFile ==
    \/ \E valid, reauth \in BOOLEAN : Authenticate(valid, reauth)
    \/ \E status \in {200, 404, 503} : GetItem(status)
    \/ CreateFolderStep
    \/ \E status \in PostStatuses : CreateFolderLooked(status)
    \/ UploadFileEnsure
    \/ UploadFileStrategy
    \/ \E status \in PutStatuses : SimpleUpload(status)
    \/ \E status \in PostStatuses : CreateSession(status)
    \/ \E status \in PutStatuses : ChunkPut(status)
    \/ RequestRaises

\* One call of upload_file against a drive that answers as it likes
SpecUploadFile == InitUploadFile /\ [][NextUploadFile]_vars

\* The folder paths create_folder is called with, as the parts split('/')
\* gives once the leading slash is removed: '/a', '/a/b', '/a/b/c', 'a/b/c/'
FolderPaths ==
    {<<"a">>, <<"a", "b">>, <<"a", "b", "c">>, <<"a", "b", "c", "">>}

\* The folders a path names: its prefixes
Prefixes(path) == {SubSeq(path, 1, n) : n \in 1..Len(path)}

\* create_folder(path) is called on a drive that has none of the folders of
\* the path, or the first of them
InitCreateFolder ==
    /\ ServiceIdle
    /\ SchedulerOff
    /\ CliOff
    /\ HistoryOff
    /\ \E path \in FolderPaths :
          /\ remote \in {{}, {<<"a">>}}
          /\ u_op = [name |-> "create_folder", path |-> path, nth |-> 1,
                     had |-> remote]
          /\ u_stack = <<CreateFolderFrame(path)>>
    /\ u_log = <<>>
    /\ u_ret = NoRet

\* The same call is made again once the first returned
CallAgain ==
    /\ u_op.name = "create_folder"
    /\ u_op.nth = 1
    /\ u_stack = <<>>
    /\ u_op' = [u_op EXCEPT !.nth = 2]
    /\ u_stack' = <<CreateFolderFrame(u_op.path)>>
    /\ u_log' = <<>>
    /\ u_ret' = NoRet
    /\ UNCHANGED remote
    /\ UNCHANGED <<svars, tvars, cvars, hvars>>

\* A drive that is up and a token that is valid or can be renewed
NextCreateFolder ==
    \/ \E valid \in BOOLEAN : Authenticate(valid, TRUE)
    \/ \E status \in {200, 404} : GetItem(status)
    \/ CreateFolderStep
    \/ CreateFolderLooked(201)
    \/ CallAgain

\* create_folder called twice with the same path
SpecCreateFolder == InitCreateFolder /\ [][NextCreateFolder]_vars

\* The most files of a local folder
MaxFiles == 2

FileNames == <<"f1", "f2", "f3", "f4">>

\* The walks of os.walk over the local folder: no file, one file in the
\* folder itself or in its subfolder 'sub', or a file in the folder followed
\* by files of 'sub'; a file is small enough for the simple upload or not
LocalTrees ==
    {<<>>}
        \cup {<<[name |-> "f1", dir |-> d, size |-> s]>> :
                d \in {"", "sub"}, s \in {1, SimpleLimit + 1}}
        \cup {[i \in 1..n |-> [name |-> FileNames[i],
                               dir |-> IF i = 1 THEN "" ELSE "sub",
                               size |-> IF i = 1 THEN s ELSE 1]] :
                n \in 2..MaxFiles, s \in {1, SimpleLimit + 1}}

InitUploadFolder ==
    /\ ServiceIdle
    /\ SchedulerOff
    /\ CliOff
    /\ HistoryOff
    /\ \E files \in LocalTrees :
          /\ u_op = [name |-> "upload_folder", files |-> files]
          /\ u_stack = <<UploadFolderFrame(files)>>
    /\ u_log = <<>>
    /\ u_ret = NoRet
    /\ remote = {UploadFolder}

\* The token is valid and the lookups are answered; creations and uploads
\* are answered as the drive likes, or raise
NextUploadFolder ==
    \/ UploadFolderEnsure
    \/ UploadFolderEnsured
    \/ UploadFolderNext
    \/ UploadFolderUploaded
    \/ Authenticate(TRUE, TRUE)
    \/ \E status \in {200, 404} : GetItem(status)
    \/ CreateFolderStep
    \/ \E status \in {201, 503} : CreateFolderLooked(status)
    \/ UploadFileEnsure
    \/ UploadFileStrategy
    \/ \E status \in {201, 507} : SimpleUpload(status)
    \/ \E status \in {200, 503} : CreateSession(status)
    \/ \E status \in {201, 202, 507} : ChunkPut(status)
    \/ RequestRaises

\* One call of upload_folder against a drive that answers as it likes
SpecUploadFolder == InitUploadFolder /\ [][NextUploadFolder]_vars

\* ---------------------------------------------------------------- claims
\* What the buckets hold, read off a store
PendingIds(store) == {r.added_time : r \in Range(store.pending)}

DownloadingIds(store) == {e.val.added_time : e \in Range(store.downloading)}

CompletedIds(store) == {r.added_time : r \in Range(store.completed)}

FailedIds(store) == {r.added_time : r \in Range(store.failed)}

StoreSources(store) == {s \in Sources : Occurrences(store, s) >= 1}

\* C1: add_task(s) returns True exactly when no record of the four buckets
\* has source s, and a call that returns False changes neither the store nor
\* the file; after the call s is in the store, so the same call repeated at
\* once returns False; and no two records of the store share a source.
C1_AddTaskStep ==
    \A s \in Sources :
        AddTask(s) =>
            /\ add_ret' <=> (s \notin StoreSources(tasks))
            /\ ~add_ret' => (tasks' = tasks /\ file' = file)
            /\ s \in StoreSources(tasks')

C1_NoSharedSource == \A s \in Sources : Occurrences(tasks, s) <= 1

C1_Uniqueness == [][C1_AddTaskStep]_vars /\ []C1_NoSharedSource

\* A source that moved on to the downloading bucket is submitted again and
\* refused
C1_Witness ==
    /\ pc = "idle"
    /\ ~add_ret
    /\ \E s \in Sources :
          \E i \in DOMAIN tasks.downloading : tasks.downloading[i].val.source = s
    /\ tasks.completed # <<>>

\* The buckets that hold the task submitted at time id
BucketsOf(store, id) ==
    {b \in {"pending", "downloading", "completed", "failed"} :
        id \in CASE b = "pending" -> PendingIds(store)
                 [] b = "downloading" -> DownloadingIds(store)
                 [] b = "completed" -> CompletedIds(store)
                 [] b = "failed" -> FailedIds(store)}

AllowedMoves ==
    {<<"pending", "downloading">>, <<"downloading", "completed">>,
     <<"pending", "failed">>}

\* The task submitted at time id has left Pending
Started(store, id) ==
    \/ id \in DownloadingIds(store) \cup CompletedIds(store) \cup FailedIds(store)
    \/ id <= clock /\ id \notin PendingIds(store)

\* The task submitted at time id has left Downloading
LeftDownloading(store, id) ==
    \/ id \in CompletedIds(store) \cup FailedIds(store)
    \/ id <= clock /\ id \notin PendingIds(store) \cup DownloadingIds(store)

\* C2: a task (one accepted submission, known by its added_time) changes
\* bucket only along Pending -> Downloading -> Completed or Pending ->
\* Failed; once it has left Pending it is not in Pending in any later state,
\* and once it has left Downloading it is not in Downloading in any later
\* state.
C2_Step ==
    \A id \in 1..MaxClock :
        /\ \A b \in BucketsOf(tasks, id) : \A c \in BucketsOf(tasks', id) :
              b = c \/ <<b, c>> \in AllowedMoves
        /\ Started(tasks, id) => id \notin PendingIds(tasks')
        /\ LeftDownloading(tasks, id) => id \notin DownloadingIds(tasks')

C2_Monotonic == [][C2_Step]_vars

\* Tasks have reached both final buckets
C2_Witness ==
    /\ pc = "idle"
    /\ tasks.completed # <<>>
    /\ tasks.failed # <<>>

\* C3: when a killed process is started again, every task the killed process
\* held (each accepted, each in one bucket) is in exactly one bucket of the
\* loaded store, wherever the kill fell, the write of _save_tasks included.
C3_Restarted ==
    (pc = "dead" /\ pc' # "dead") =>
        \A s \in at_kill : Occurrences(tasks', s) = 1

C3_CrashSafety == [][C3_Restarted]_vars

\* C5: between operations of one process, every accepted submission is in
\* exactly one bucket, whatever ids add_torrent returned.
C5_ExactlyOneBucket ==
    pc = "idle" =>
        \A id \in 1..clock : Cardinality(BucketsOf(tasks, id)) = 1

PollPcs == {"poll", "poll_save", "finish", "finish_save"}

\* The record of the task submitted at time id in a list bucket
RecordIn(bucket, id) == CHOOSE r \in Range(bucket) : r.added_time = id

IsUpload(call) == call.fn \in {"upload_file", "upload_folder"}

IsPoll(call) == call.fn = "get_torrent_status"

\* The upload result of a file that was uploaded, or of a directory all of
\* whose files were uploaded
IsDescriptor(res) == Has(res, "id") /\ ~Has(res, "error")

IsCleanSummary(res) == Has(res, "success") /\ res.success # <<>> /\ res.error = <<>>

C4_FirstTick ==
    pc \in PollPcs =>
        /\ tasks.pending = <<>>
        /\ tasks.failed = <<>>
        /\ \A id \in 1..clock :
              id \in DownloadingIds(tasks) \cup CompletedIds(tasks)

C4_StaysWhileUnfinished ==
    (IsPoll(last_call) /\ ~IsFinished(last_call.out.status)) =>
        \E e \in Range(tasks.downloading) :
            e.key = last_call.arg /\ e.val.added_time = last_call.task

C4_ResultOfUpload ==
    IsUpload(last_call) =>
        /\ last_call.task \in CompletedIds(tasks)
        /\ LET r == RecordIn(tasks.completed, last_call.task) IN
              /\ Has(r, "upload_result")
              /\ r.upload_result = last_call.out.result
              /\ last_call.fn = "upload_file" => IsDescriptor(r.upload_result)
              /\ last_call.fn = "upload_folder" => IsCleanSummary(r.upload_result)

C4_Done(id) ==
    /\ id \in CompletedIds(tasks)
    /\ LET r == RecordIn(tasks.completed, id) IN
          /\ Has(r, "upload_result")
          /\ IsDescriptor(r.upload_result) \/ IsCleanSummary(r.upload_result)

C6_UploadErrorCompletes ==
    (IsUpload(last_call) /\ ~last_call.out.raised
        /\ Has(last_call.out.result, "error")) =>
        /\ last_call.task \in CompletedIds(tasks)
        /\ last_call.task \notin FailedIds(tasks)
        /\ LET r == RecordIn(tasks.completed, last_call.task) IN
              /\ Has(r, "upload_result")
              /\ r.upload_result = last_call.out.result

\* upload_file returned the error of a rejected chunk
C6_Witness ==
    /\ last_call.fn = "upload_file"
    /\ ~last_call.out.raised
    /\ last_call.out.result = [error |-> "chunk 507"]
    /\ last_call.task \in CompletedIds(tasks)

\* C7: when check_downloads returns, every task one of its polls reported
\* finished is in Completed with a completion time.
C7_CompletedInSameCall ==
    pc = "idle" =>
        \A id \in finished_seen :
            /\ id \in CompletedIds(tasks)
            /\ Has(RecordIn(tasks.completed, id), "complete_time")

\* C8: every task in Completed was reported finished by a poll; a status is
\* finished exactly when its progress is at least the threshold; no task
\* goes from Pending to Completed in one step; and after a poll that
\* reports unfinished the task is still in Downloading.
C8_StatusOf(r) == Has(r, "status") /\ Has(r.status, "progress") =>
    (r.status.is_finished <=> r.status.progress >= FinishedThreshold)

C8_State ==
    /\ CompletedIds(tasks) \subseteq finished_seen
    /\ \A r \in Range(tasks.completed) : C8_StatusOf(r)
    /\ \A e \in Range(tasks.downloading) : C8_StatusOf(e.val)
    /\ (IsPoll(last_call) /\ ~last_call.out.raised
          /\ ~IsFinished(last_call.out.status)) =>
            last_call.task \in DownloadingIds(tasks)

C8_Step ==
    \A id \in PendingIds(tasks) : id \notin CompletedIds(tasks')

C8_CompletedOnlyAfterFinished == []C8_State /\ [][C8_Step]_vars

\* A task polled just below the threshold is still downloading
C8_Witness ==
    /\ IsPoll(last_call)
    /\ ~last_call.out.raised
    /\ Has(last_call.out.status, "progress")
    /\ last_call.out.status.progress = FinishedThreshold - 1
    /\ last_call.task \in DownloadingIds(tasks)
    /\ tasks.completed # <<>>

\* C9: after add_torrent raised for a task, the task is in Failed with the
\* text of the exception as its error, is not in Pending and has no entry
\* in the downloading map; and no record outside Failed has an error field.
C9_FailedOnRaise ==
    /\ (last_call.fn = "add_torrent" /\ last_call.out.raised) =>
          /\ \E r \in Range(tasks.failed) :
                /\ r.added_time = last_call.task
                /\ r.source = last_call.arg
                /\ r.error = last_call.out.exc
          /\ last_call.task \notin PendingIds(tasks)
          /\ \A e \in Range(tasks.downloading) :
                e.val.source # last_call.arg /\ e.val.added_time # last_call.task
    /\ \A r \in Range(tasks.pending) \cup Range(tasks.completed) : ~Has(r, "error")
    /\ \A e \in Range(tasks.downloading) : ~Has(e.val, "error")
    /\ \A r \in Range(tasks.failed) : Has(r, "error")

\* add_torrent raised for the second task of a dispatch phase
C9_Witness ==
    /\ last_call.fn = "add_torrent"
    /\ last_call.out.raised
    /\ last_call.out.exc = "rpc down"
    /\ tasks.downloading # <<>>
    /\ tasks.failed # <<>>

\* C10: after get_torrent_status raised or returned an error dict for a
\* task, the task is in Downloading under the same transfer id and not in
\* Failed; and every check_downloads call visits every entry of the
\* downloading map, so the task is polled again by the next tick.
C10_State ==
    (IsPoll(last_call)
        /\ (last_call.out.raised \/ Has(last_call.out.status, "error"))) =>
        /\ \E e \in Range(tasks.downloading) :
              e.key = last_call.arg /\ e.val.added_time = last_call.task
        /\ last_call.task \notin FailedIds(tasks)

C10_Step ==
    (pc = "dispatch" /\ pc' = "poll") =>
        Range(downloading_iter') = DictKeys(tasks.downloading)

C10_PollErrorKeepsDownloading == []C10_State /\ [][C10_Step]_vars

\* A restarted process polls a transfer its downloader has no handle of
C10_Witness ==
    /\ IsPoll(last_call)
    /\ ~last_call.out.raised
    /\ last_call.out.status = NotFound
    /\ pc = "idle"
    /\ last_call.task \in DownloadingIds(tasks)

\* C11 (premise): a transfer reaches the path lookup of check_downloads only
\* after get_torrent_status found its handle, and get_download_path returns
\* None only for a transfer without a handle: in the running service the
\* path lookup of a finished transfer never returns None.
C11_PathResolves ==
    pc = "finish" => Head(downloading_iter) \in handles

TerminalIds(store) == CompletedIds(store) \cup FailedIds(store)

\* The record of the task submitted at time id, in Completed or in Failed
TerminalRecord(store, id) ==
    IF id \in CompletedIds(store) THEN RecordIn(store.completed, id)
    ELSE RecordIn(store.failed, id)

\* C12: a task in Completed or Failed is in that bucket, with the same
\* record, after every step; every collaborator call that is made is for a
\* task that is not in Completed or Failed; and add_task with the source of
\* a task in Completed or Failed returns False and changes nothing.
C12_Step ==
    /\ \A id \in CompletedIds(tasks) :
          /\ BucketsOf(tasks', id) = {"completed"}
          /\ RecordIn(tasks'.completed, id) = RecordIn(tasks.completed, id)
    /\ \A id \in FailedIds(tasks) :
          /\ BucketsOf(tasks', id) = {"failed"}
          /\ RecordIn(tasks'.failed, id) = RecordIn(tasks.failed, id)
    /\ (last_call' # last_call /\ last_call' # NoCall) =>
          last_call'.task \notin TerminalIds(tasks)
    /\ \A id \in TerminalIds(tasks) :
          AddTask(TerminalRecord(tasks, id).source) =>
              ~add_ret' /\ tasks' = tasks /\ file' = file

\* The tasks the running phase is still to hand to a collaborator are in
\* Pending (dispatch phase) or in Downloading (poll phase)
C12_State ==
    /\ pc = "dispatch" =>
          \A i \in DOMAIN pending_iter :
              /\ pending_iter[i].added_time \in PendingIds(tasks)
              /\ pending_iter[i].added_time \notin TerminalIds(tasks)
    /\ pc \in {"poll", "poll_save", "finish"} =>
          \A i \in DOMAIN downloading_iter :
              /\ downloading_iter[i] \in DictKeys(tasks.downloading)
              /\ DictGet(tasks.downloading, downloading_iter[i]).added_time
                    \notin TerminalIds(tasks)

C12_Absorbing == []C12_State /\ [][C12_Step]_vars

\* After one task completed and a later tick failed another, a source of
\* the two is submitted again and refused
C12_Witness ==
    /\ pc = "idle"
    /\ ~add_ret
    /\ 1 \in CompletedIds(tasks)
    /\ 2 \in FailedIds(tasks)
    /\ last_call.fn = "add_torrent"
    /\ last_call.task = 2

\* ------------------------------------------------ claims on the upload client
\* The call of the upload client is over
Done == u_op # NoOp /\ u_stack = <<>>

\* The call is over and returned a value
Returned == Done /\ ~Has(u_ret, "raised")

Requests(kind) ==
    SelectSeq(u_log, LAMBDA e : e.ev = "http" /\ e.kind = kind)

ChunkPuts == Requests("chunk")

Ceil(a, b) == IF a % b = 0 THEN a \div b ELSE a \div b + 1

IsSuccess(res) == Has(res, "id") /\ ~Has(res, "error")

\* C13: the chunk PUTs go up from offset 0 without gap or overlap; chunk k
\* (from 0) carries bytes k*C to min(F, (k+1)*C) - 1 of F, with
\* Content-Length end - start + 1, which is the number of bytes read; when
\* every chunk before the last was answered 202 the call issued ceil(F/C)
\* PUTs, the last of length F - (ceil(F/C) - 1)*C and ending at F - 1.
C13_ChunkMath ==
    LET F == u_op.size
        N == Ceil(F, ChunkSize)
        P == ChunkPuts
    IN u_op.name = "upload_file" =>
        /\ Len(P) <= N
        /\ \A i \in DOMAIN P :
              /\ P[i].start = (i - 1) * ChunkSize
              /\ P[i].end = Min(F, i * ChunkSize) - 1
              /\ P[i].total = F
              /\ P[i].length = P[i].end - P[i].start + 1
              /\ P[i].length = P[i].data
              /\ P[i].length >= 1
              /\ i > 1 => P[i].start = P[i - 1].end + 1
        /\ (Returned /\ P # <<>> /\ \A i \in DOMAIN P : i < N => P[i].status = 202) =>
              /\ Len(P) = N
              /\ P[N].length = F - (N - 1) * ChunkSize
              /\ P[N].end = F - 1

\* A file of two chunks and one byte was sent in three PUTs
C13_Witness ==
    /\ Done
    /\ u_op.size = 2 * ChunkSize + 1
    /\ Len(ChunkPuts) = 3
    /\ ChunkPuts[3].length = 1
    /\ ChunkPuts[3].status = 201

\* C14: only the last chunk PUT of a call has an answer other than 202;
\* when the call is over, a last answer of 200 or 201 gave a success, a last
\* answer other than 200, 201 and 202 gave an error with that status, and
\* answers that were all 202 gave the error 'Upload completed but no
\* confirmation received'; the result of a chunked upload is a success
\* exactly when a chunk PUT was answered 200 or 201.
C14_ChunkOutcome ==
    LET P == ChunkPuts
        n == Len(P)
        sessions == Requests("createUploadSession")
    IN u_op.name = "upload_file" =>
        /\ \A i \in DOMAIN P : i < n => P[i].status = 202
        /\ (~Done /\ n > 0 /\ Top.pc = "chunk") => P[n].status = 202
        /\ (Returned /\ sessions # <<>> /\ sessions[1].status = 200) =>
              /\ (n > 0 /\ P[n].status \in {200, 201}) => IsSuccess(u_ret)
              /\ (n > 0 /\ P[n].status \notin {200, 201, 202}) =>
                    /\ Has(u_ret, "error")
                    /\ u_ret.error = "Failed chunk upload"
                    /\ u_ret.status = P[n].status
              /\ (\A i \in DOMAIN P : P[i].status = 202) =>
                    u_ret = [error |-> "Upload completed but no confirmation received"]
              /\ IsSuccess(u_ret) <=>
                    \E i \in DOMAIN P : P[i].status \in {200, 201}

\* Every chunk was answered 202 and the call returned the error
C14_Witness ==
    /\ Done
    /\ Len(ChunkPuts) = 2
    /\ ChunkPuts[2].status = 202
    /\ Has(u_ret, "error")

\* The errors upload_file returns before it looks at the file
BeforeUpload ==
    {"Authentication failed", "Failed to get item", "Failed to create folder"}

C17_NoRequestAfterAuthFailure ==
    \A i \in DOMAIN u_log :
        (u_log[i].ev = "authenticate" /\ ~u_log[i].ok) =>
            /\ \A j \in DOMAIN u_log : j > i => u_log[j].ev # "http"
            /\ Done => u_ret = AuthFailed

\* C16: after each of two calls of create_folder with the same path the
\* drive has the folder of every prefix of the path, once (no renamed copy,
\* nothing else new); the second call gets a 200 from the lookup of every
\* prefix and issues no creation POST.
C16_Idempotent ==
    LET want == Prefixes(UrlPath(u_op.path))
    IN u_op.name = "create_folder" =>
        /\ remote \subseteq u_op.had \cup want
        /\ Done =>
              /\ remote = u_op.had \cup want
              /\ IsSuccess(u_ret)
              /\ u_ret.id = UrlPath(u_op.path)
        /\ u_op.nth = 2 =>
              /\ remote = u_op.had \cup want
              /\ Requests("folder") = <<>>
              /\ \A i \in DOMAIN u_log :
                    u_log[i].ev = "http" => u_log[i].status = 200
              /\ Done =>
                    {e.to : e \in Range(Requests("lookup"))} = want

\* '/a/b/c' was created on a drive that had none of its folders, and was
\* looked up by the second call
C16_Witness ==
    /\ Done
    /\ u_op.name = "create_folder"
    /\ u_op.nth = 2
    /\ u_op.had = {}
    /\ u_op.path = <<"a", "b", "c">>
    /\ remote = {<<"a">>, <<"a", "b">>, <<"a", "b", "c">>}
    /\ Len(Requests("lookup")) = 4

\* The files upload_folder handed to upload_file, in order
Attempts == SelectSeq(u_log, LAMBDA e : e.ev = "upload_file")

\* The file names of a list of the summary
SummaryFiles(list) == [i \in DOMAIN list |-> list[i].file]

\* C18: once upload_folder has started on the files, it ends having handed
\* every file of the folder to upload_file exactly once, with a summary that
\* has every file exactly once: under success when its upload returned
\* without an error, under error otherwise.
C18_EveryFileOnce ==
    (u_op.name = "upload_folder" /\ Done /\ Attempts # <<>>) =>
        /\ SummaryFiles(Attempts) = [i \in DOMAIN u_op.files |-> u_op.files[i].name]
        /\ Has(u_ret, "success")
        /\ Len(u_ret.success) + Len(u_ret.error) = Len(u_op.files)
        /\ \A i \in DOMAIN u_op.files :
              Cardinality({j \in DOMAIN u_ret.success :
                              u_ret.success[j].file = u_op.files[i].name})
              + Cardinality({j \in DOMAIN u_ret.error :
                              u_ret.error[j].file = u_op.files[i].name}) = 1
        /\ \A j \in DOMAIN u_ret.success : IsSuccess(u_ret.success[j].result)

\* ------------------------------------------------------------ run_scheduler
\* The scheduler process (main.py run_scheduler), with the jobs of the
\* schedule library: every(n).seconds.do(f) appends a job whose next_run is
\* datetime.now() + n; run_pending runs the jobs with now >= next_run, sorted
\* by next_run; after a job's function returns, its next_run becomes
\* datetime.now() + n.  Time is counted in units of the clock; a run of a job
\* takes at least one unit.

\* The largest CHECK_INTERVAL, in units of the clock
MaxInterval == 3

\* The longest run of a phase
MaxDuration == 4

\* The longest time.sleep, wake-up latency included
MaxSleep == 2

\* The last instant of the clock
MaxTime == 12

DispatchPhase == "process_pending_tasks"

PollPhase == "check_downloads"

\* One call of a phase that takes d units of time
RunPhase(fn, d) ==
    /\ sched_now + d <= MaxTime
    /\ phases' = Append(phases, [fn |-> fn, start |-> sched_now,
                                 end |-> sched_now + d])
    /\ sched_now' = sched_now + d

InitScheduler ==
    /\ ServiceIdle
    /\ UploaderOff
    /\ CliOff
    /\ HistoryOff
    /\ sched_now = 0
    /\ interval \in 1..MaxInterval
    /\ jobs = <<>>
    /\ sched_pc = "start"
    /\ due = <<>>
    /\ phases = <<>>

\* self.process_pending_tasks(), called at once
InitialDispatch(d) ==
    /\ sched_pc = "start"
    /\ RunPhase(DispatchPhase, d)
    /\ sched_pc' = "initial_poll"
    /\ UNCHANGED <<interval, jobs, due>>
    /\ UNCHANGED <<svars, uvars, cvars, hvars>>

\* self.check_downloads(), called at once
InitialPoll(d) ==
    /\ sched_pc = "initial_poll"
    /\ RunPhase(PollPhase, d)
    /\ sched_pc' = "every"
    /\ UNCHANGED <<interval, jobs, due>>
    /\ UNCHANGED <<svars, uvars, cvars, hvars>>

\* The two schedule.every(CHECK_INTERVAL).seconds.do(...); e is the time
\* between the two
Every(e) ==
    /\ sched_pc = "every"
    /\ sched_now + e <= MaxTime
    /\ jobs' = <<[fn |-> DispatchPhase, next_run |-> sched_now + interval],
                 [fn |-> PollPhase, next_run |-> sched_now + e + interval]>>
    /\ sched_now' = sched_now + e
    /\ sched_pc' = "loop"
    /\ UNCHANGED <<interval, due, phases>>
    /\ UNCHANGED <<svars, uvars, cvars, hvars>>

\* job.should_run
ShouldRun(j) == sched_now >= jobs[j].next_run

\* sorted(runnable_jobs) in the order of the list
SortedListOrder(S) ==
    CHOOSE s \in [1..Cardinality(S) -> S] :
        \A a, b \in 1..Cardinality(S) : a < b => s[a] < s[b]

\* sorted(runnable_jobs): by next_run, and by the place in the list when
\* two are equal
Sorted(S) ==
    CHOOSE s \in [1..Cardinality(S) -> S] :
        \A a, b \in 1..Cardinality(S) :
            a < b => \/ jobs[s[a]].next_run < jobs[s[b]].next_run
                     \/ /\ jobs[s[a]].next_run = jobs[s[b]].next_run
                        /\ s[a] < s[b]

\* schedule.run_pending() up to its loop
RunPending ==
    /\ sched_pc = "loop"
    /\ due' = Sorted({j \in 1..Len(jobs) : ShouldRun(j)})
    /\ sched_pc' = "pass"
    /\ UNCHANGED <<sched_now, interval, jobs, phases>>
    /\ UNCHANGED <<svars, uvars, cvars, hvars>>

\* One turn of the loop of run_pending: the job's function, then the job's
\* next_run
RunJob(d) ==
    /\ sched_pc = "pass"
    /\ due # <<>>
    /\ RunPhase(jobs[Head(due)].fn, d)
    /\ jobs' = [jobs EXCEPT ![Head(due)].next_run = sched_now + d + interval]
    /\ due' = Tail(due)
    /\ UNCHANGED <<interval, sched_pc>>
    /\ UNCHANGED <<svars, uvars, cvars, hvars>>

\* time.sleep(1) after run_pending
Sleep(d) ==
    /\ sched_pc = "pass"
    /\ due = <<>>
    /\ sched_now + d <= MaxTime
    /\ sched_now' = sched_now + d
    /\ sched_pc' = "loop"
    /\ UNCHANGED <<interval, jobs, due, phases>>
    /\ UNCHANGED <<svars, uvars, cvars, hvars>>

NextScheduler ==
    \/ \E d \in 1..MaxDuration : InitialDispatch(d)
    \/ \E d \in 1..MaxDuration : InitialPoll(d)
    \/ \E e \in 0..1 : Every(e)
    \/ RunPending
    \/ \E d \in 1..MaxDuration : RunJob(d)
    \/ \E d \in 1..MaxSleep : Sleep(d)

SpecScheduler == InitScheduler /\ [][NextScheduler]_vars

\* C19: run_scheduler runs process_pending_tasks and then check_downloads at
\* once, with no wait before or between them; from then on the phases that
\* run are by turns process_pending_tasks and check_downloads, one of each
\* per tick, and a phase starts only after the phase before it has ended,
\* however long a phase takes.
C19_PhasesAlternate ==
    /\ \A i \in 1..Len(phases) :
           phases[i].fn = IF i % 2 = 1 THEN DispatchPhase ELSE PollPhase
    /\ \A i \in 1..Len(phases) - 1 : phases[i].end <= phases[i + 1].start
    /\ Len(phases) >= 1 => phases[1].start = 0
    /\ Len(phases) >= 2 => phases[2].start = phases[1].end
    /\ jobs # <<>> => Len(phases) >= 2

\* Two ticks have run after the first one, with a phase longer than the
\* interval, and a pass of run_pending ran check_downloads before
\* process_pending_tasks
C19_Witness ==
    /\ Len(phases) >= 6
    /\ \E i \in 3..Len(phases) : phases[i].end - phases[i].start > interval
    /\ \E i \in 3..Len(phases) - 1 :
           /\ phases[i].fn = PollPhase
           /\ phases[i + 1].start = phases[i].end


\* ---------------------------------------------------------- the add command
\* A second process over the same tasks.json: main's 'add' command makes a
\* BTOneDriveService of its own, calls add_task on it and exits, while the
\* process of run_scheduler goes on with the store it loaded when it started.

\* service = BTOneDriveService(): __init__ loads tasks.json
CliInit(s) ==
    /\ cli_pc = "off"
    /\ cli_tasks' = LoadTasks(file)
    /\ cli_source' = s
    /\ cli_ret' = FALSE
    /\ cli_pc' = "add"
    /\ UNCHANGED <<svars, uvars, tvars, hvars>>

\* service.add_task(args.source) up to the call of _save_tasks
CliAddTask ==
    /\ cli_pc = "add"
    /\ IF TaskExists(cli_tasks, cli_source)
       THEN /\ cli_ret' = FALSE
            /\ cli_pc' = "exit"
            /\ UNCHANGED <<cli_tasks, clock>>
       ELSE /\ clock < MaxClock
            /\ clock' = clock + 1
            /\ cli_tasks' = [cli_tasks EXCEPT !.pending =
                    Append(@, [source |-> cli_source, added_time |-> clock'])]
            /\ cli_ret' = TRUE
            /\ cli_pc' = "save"
    /\ UNCHANGED cli_source
    /\ UNCHANGED <<tasks, file, handles, pc, pending_iter, downloading_iter,
                   add_ret, last_call, finished_seen, at_kill>>
    /\ UNCHANGED <<uvars, tvars, hvars>>

\* _save_tasks of the 'add' process
CliSave ==
    /\ cli_pc = "save"
    /\ file' = Dump(cli_tasks)
    /\ cli_pc' = "exit"
    /\ UNCHANGED <<cli_tasks, cli_source, cli_ret>>
    /\ UNCHANGED <<tasks, handles, pc, pending_iter, downloading_iter, clock,
                   add_ret, last_call, finished_seen, at_kill>>
    /\ UNCHANGED <<uvars, tvars, hvars>>

\* The 'add' process prints the outcome and ends
CliExit ==
    /\ cli_pc = "exit"
    /\ cli_pc' = "off"
    /\ cli_tasks' = EmptyStore
    /\ cli_source' = ""
    /\ cli_ret' = FALSE
    /\ UNCHANGED <<svars, uvars, tvars, hvars>>

\* The store of a process of run_scheduler that was started after one 'add'
\* command
FirstTask == [source |-> "s1", added_time |-> 1]

\* The process of run_scheduler has loaded the tasks.json that an 'add'
\* command left; no other 'add' command runs yet
InitAddCommand ==
    /\ tasks = [EmptyStore EXCEPT !.pending = <<FirstTask>>]
    /\ file = Dump(tasks)
    /\ clock = FirstTask.added_time
    /\ handles = {}
    /\ pc = "idle"
    /\ pending_iter = <<>>
    /\ downloading_iter = <<>>
    /\ add_ret = FALSE
    /\ last_call = NoCall
    /\ finished_seen = {}
    /\ at_kill = {}
    /\ UploaderOff
    /\ SchedulerOff
    /\ CliOff
    /\ HistoryOff

\* The steps of the process of run_scheduler
ReconcilerStep ==
    \/ ProcessPendingTasks
    \/ \E out \in AddTorrentOutcomes : DispatchCall(out)
    \/ DispatchSave
    \/ CheckDownloads
    \/ \E out \in UNION {GetStatusOutcomes(h) : h \in Hashes} : PollCall(out)
    \/ PollSave
    \/ \E out \in FinishOutcomes : Finish(out)
    \/ FinishSave
    \/ TickDone

CliStep ==
    \/ CliAddTask
    \/ CliSave
    \/ CliExit

NextAddCommand ==
    \/ ReconcilerStep
    \/ \E s \in Sources : CliInit(s)
    \/ CliStep

\* The process of run_scheduler keeps ticking and an 'add' command that was
\* started runs to its end
SpecAddCommand ==
    /\ InitAddCommand
    /\ [][NextAddCommand]_vars
    /\ WF_vars(ReconcilerStep)
    /\ WF_vars(CliStep)

\* The task submitted at time id was accepted: it is in the store that the
\* process of run_scheduler loaded, or an 'add' command has saved it
Accepted(id) ==
    \/ id \in PendingIds(tasks)
    \/ /\ cli_pc = "exit"
       /\ cli_ret
       /\ cli_tasks.pending[Len(cli_tasks.pending)].added_time = id

\* The process of run_scheduler has taken the task out of Pending
Dispatched(id) == id \in DownloadingIds(tasks) \cup TerminalIds(tasks)

\* C20: every task that add_task accepted, before the process of
\* run_scheduler started or in an 'add' command run beside it, is in the end
\* moved out of Pending, to Downloading or to Failed, by the process of
\* run_scheduler.
C20_AcceptedIsDispatched ==
    \A id \in 1..MaxClock : Accepted(id) ~> Dispatched(id)


\* ------------------------------------------------------------- _load_tasks
\* _load_tasks over the files it can find: none, one that cannot be opened,
\* one that json.load cannot parse, and JSON objects with any of the four
\* buckets, each bucket empty or with one record

BucketNames == {"pending", "downloading", "completed", "failed"}

Unreadable == [kind |-> "unreadable"]

\* One record of bucket b as a store file has it
OneRecord(b) ==
    IF b = "downloading"
    THEN <<[key |-> "h1",
            val |-> [source |-> "s1", start_time |-> 1, added_time |-> 1]]>>
    ELSE <<[source |-> "s1", added_time |-> 1]>>

\* The JSON objects whose keys are among the four bucket names
JsonObjects ==
    UNION {{[b \in S |-> IF b \in F THEN OneRecord(b) ELSE <<>>] :
               F \in SUBSET S} : S \in SUBSET BucketNames}

LoadFiles ==
    {Missing, Unreadable, Truncated} \cup {Dump(d) : d \in JsonObjects}

\* No process yet, and a tasks.json of any of these contents
InitLoad ==
    /\ file \in LoadFiles
    /\ tasks = EmptyStore
    /\ handles = {}
    /\ pc = "dead"
    /\ pending_iter = <<>>
    /\ downloading_iter = <<>>
    /\ clock = 1
    /\ add_ret = FALSE
    /\ last_call = NoCall
    /\ finished_seen = {}
    /\ at_kill = {}
    /\ UploaderOff
    /\ SchedulerOff
    /\ CliOff
    /\ HistoryOff

\* The service is started: __init__ calls _load_tasks
SpecLoad == InitLoad /\ [][Restart]_vars

\* C21: when tasks.json is missing or cannot be read or parsed, the store of
\* the started service is the four empty buckets, and after every load the
\* store has the four buckets.
C21_LoadGivesFourBuckets ==
    pc = "idle" =>
        /\ file.kind # "json" => tasks = EmptyStore
        /\ DOMAIN tasks = BucketNames


\* ------------------------------------------------- fields of another version
\* A service started over a tasks.json whose records carry a field this
\* program does not know

UnknownValue == "kept"

LoadedPending == [source |-> "s1", added_time |-> 1, label |-> UnknownValue]

LoadedDownloading ==
    [source |-> "s2", start_time |-> 2, added_time |-> 2, label |-> UnknownValue]

LoadedStore ==
    [EmptyStore EXCEPT !.pending = <<LoadedPending>>,
                       !.downloading = <<[key |-> "h2", val |-> LoadedDownloading]>>]

\* __init__ has loaded the file; the downloader of the new process has no
\* handles
InitLoaded ==
    /\ file = Dump(LoadedStore)
    /\ tasks = LoadTasks(file)
    /\ handles = {}
    /\ pc = "idle"
    /\ pending_iter = <<>>
    /\ downloading_iter = <<>>
    /\ clock = 2
    /\ add_ret = FALSE
    /\ last_call = NoCall
    /\ finished_seen = {}
    /\ at_kill = {}
    /\ UploaderOff
    /\ SchedulerOff
    /\ CliOff
    /\ HistoryOff

\* The ticks of the started service
SpecLoaded == InitLoaded /\ [][ReconcilerStep]_vars

\* The records of a store, of all four buckets
AllRecords(store) ==
    Range(store.pending) \cup {e.val : e \in Range(store.downloading)}
        \cup Range(store.completed) \cup Range(store.failed)

\* C22: a field the program does not know on a record of the loaded store is
\* on that task's record with the same value after every transition and
\* every poll, in the store of the process and in the file it saves.
C22_UnknownFieldsKept ==
    \A store \in {tasks, LoadTasks(file)} :
        \A r \in AllRecords(store) :
            Has(r, "label") /\ r.label = UnknownValue


\* A step that calls add_torrent
IsDispatchCall == pc = "dispatch" /\ pc' = "dispatch_save"

\* The sources add_torrent was called with
CalledSources == {c.source : c \in called}

\* C23: in one process a dispatch phase calls add_torrent once for each task
\* that was Pending when the phase started, in their order and skipping
\* none, so that Pending is empty when the phase ends; add_torrent is not
\* called for a task it was called for before, and is never called twice
\* with the same source.
C23_DispatchOnce ==
    [][/\ pc' \in {"dispatch", "dispatch_save"} => tasks'.pending = pending_iter'
       /\ pc' \in {"poll", "poll_save", "finish", "finish_save"}
              => tasks'.pending = <<>>
       /\ IsDispatchCall =>
              /\ Head(pending_iter).added_time \notin {c.task : c \in called}
              /\ Head(pending_iter).source \notin CalledSources]_vars


\* A store without the records of the task submitted at time id
WithoutTask(store, id) ==
    [pending |-> SelectSeq(store.pending, LAMBDA r : r.added_time # id),
     downloading |-> SelectSeq(store.downloading,
                               LAMBDA e : e.val.added_time # id),
     completed |-> SelectSeq(store.completed, LAMBDA r : r.added_time # id),
     failed |-> SelectSeq(store.failed, LAMBDA r : r.added_time # id)]

\* The process is between two tasks: no change waits for its _save_tasks
BetweenTasks == pc \in {"idle", "dispatch", "poll"}

\* The task whose change is under way
CurrentTask == IF pc = "add_save" THEN clock ELSE last_call.task

\* C24: with every write succeeding, a change of a task is in tasks.json
\* before the next task is begun: between two tasks the file holds the store
\* of the process, and at every other moment the file and the store differ
\* in the records of the one task being processed at most, so that a crash
\* at that moment leaves that task alone stale on disk.
C24_FileLagsOneTask ==
    IF BetweenTasks
    THEN LoadTasks(file) = tasks
    ELSE WithoutTask(LoadTasks(file), CurrentTask) = WithoutTask(tasks, CurrentTask)


\* The collaborator call of this step failed: it raised, or it is an upload
\* that returned a dict with an error
CallFailed(call) ==
    /\ call.fn # "none"
    /\ \/ call.out.raised
       \/ call.fn \in {"upload_file", "upload_folder"}
              /\ Has(call.out.result, "error")

\* The record of the task submitted at time id carries an error, as error
\* or as the error of its upload_result
ErrorRecorded(store, id) ==
    \E r \in AllRecords(store) :
        /\ r.added_time = id
        /\ \/ Has(r, "error")
           \/ Has(r, "upload_result") /\ Has(r.upload_result, "error")

\* The loop of the phase goes on with the tasks that were left to visit
LoopGoesOn ==
    \/ pc' = "dispatch_save" /\ pending_iter' = Tail(pending_iter)
    \/ /\ pc' \in {"poll", "finish_save"}
       /\ downloading_iter' \in {downloading_iter, Tail(downloading_iter)}

\* C25: when add_torrent raises, get_torrent_status raises or the upload
\* returns an error or raises for one task, the phase goes on with the
\* other tasks of the tick, and the failure is on the record of the task it
\* happened to.
C25_FailureIsolatedAndRecorded ==
    [][(last_call' # last_call /\ CallFailed(last_call')) =>
           /\ LoopGoesOn
           /\ ErrorRecorded(tasks', last_call'.task)]_vars


\* ------------------------------------------------------- writes that fail
\* What a failed write of _save_tasks leaves: the file as it was when open
\* raised, a cut-off file when json.dump raised
FailedWrites == {file, Truncated}

\* _save_tasks when open or json.dump raises: the except logs it
SaveTasksFails(next_pc, f) ==
    /\ file' = f
    /\ pc' = next_pc
    /\ write_failed' = TRUE
    /\ UNCHANGED <<tasks, handles, clock, add_ret, last_call, finished_seen,
                   at_kill, called, uploads>>
    /\ UNCHANGED <<uvars, tvars, cvars>>

AddTaskSaveFails(f) ==
    /\ pc = "add_save"
    /\ SaveTasksFails("idle", f)
    /\ UNCHANGED <<pending_iter, downloading_iter>>

DispatchSaveFails(f) ==
    /\ pc = "dispatch_save"
    /\ SaveTasksFails("dispatch", f)
    /\ UNCHANGED <<pending_iter, downloading_iter>>

PollSaveFails(f) ==
    /\ pc = "poll_save"
    /\ LET h == Head(downloading_iter) IN
          IF IsFinished(DictGet(tasks.downloading, h).status)
          THEN /\ SaveTasksFails("finish", f)
               /\ UNCHANGED downloading_iter
          ELSE /\ SaveTasksFails("poll", f)
               /\ downloading_iter' = Tail(downloading_iter)
    /\ UNCHANGED pending_iter

FinishSaveFails(f) ==
    /\ pc = "finish_save"
    /\ SaveTasksFails("poll", f)
    /\ downloading_iter' = Tail(downloading_iter)
    /\ UNCHANGED pending_iter

NextWriteFail ==
    \/ NextHappy
    \/ \E f \in FailedWrites : AddTaskSaveFails(f)
    \/ \E f \in FailedWrites : DispatchSaveFails(f)
    \/ \E f \in FailedWrites : PollSaveFails(f)
    \/ \E f \in FailedWrites : FinishSaveFails(f)

\* One service process whose writes of tasks.json can fail, with collaborators
\* that do not
SpecWriteFail == Init /\ [][NextWriteFail]_vars

\* A step that ends a tick
IsTickDone == pc = "poll" /\ pc' = "idle"

\* C26: a write of _save_tasks that fails does not end the process and the
\* change stays in the store of the process; a tick in which no write fails
\* ends with tasks.json holding the store of the process, whether a task
\* changed its bucket in that tick or not.
C26_RetriedByNextTick ==
    [][(IsTickDone /\ ~write_failed) => LoadTasks(file') = tasks']_vars


\* task.get('upload_result') as a list: empty when the record has none
UploadResultOf(r) == IF Has(r, "upload_result") THEN <<r.upload_result>> ELSE <<>>

\* The records of a store that are not in Completed
NotCompleted(store) ==
    Range(store.pending) \cup {e.val : e \in Range(store.downloading)}
        \cup Range(store.failed)

\* C27: upload_result is written once, in the step of check_downloads that
\* moves the task from Downloading to Completed: no record of Pending,
\* Downloading or Failed has it, in the store of the process or in
\* tasks.json, a record comes into Completed only by that step, and the
\* upload_result of a record in Completed does not change.
C27_UploadResultOnce ==
    [][/\ \A store \in {tasks', LoadTasks(file')} :
              \A r \in NotCompleted(store) : ~Has(r, "upload_result")
       /\ \A id \in CompletedIds(tasks') :
              IF id \in CompletedIds(tasks)
              THEN UploadResultOf(RecordIn(tasks'.completed, id))
                       = UploadResultOf(RecordIn(tasks.completed, id))
              ELSE pc = "finish" /\ id \in DownloadingIds(tasks)]_vars

\* Two tasks are in Completed in tasks.json, each with its upload_result,
\* one of them an error
C27_Witness ==
    /\ Len(LoadTasks(file).completed) = 2
    /\ \A r \in Range(LoadTasks(file).completed) : Has(r, "upload_result")
    /\ \E r \in Range(LoadTasks(file).completed) :
           Has(r.upload_result, "error")


\* A step that calls get_torrent_status
IsPollCall ==
    /\ pc = "poll"
    /\ downloading_iter # <<>>
    /\ pc' \in {"poll", "poll_save"}

\* C28: also after a restart, a poll of a task that the store holds in
\* Downloading gets the status of its transfer from the download client,
\* with the progress and the finished flag that let a finished transfer be
\* moved to Completed.
C28_PolledAfterRestart ==
    [][(IsPollCall /\ ~last_call'.out.raised)
           => Has(last_call'.out.status, "is_finished")]_vars


\* The tasks a store has a record of, by their submission time
AllIds(store) == {r.added_time : r \in AllRecords(store)}

\* C29: a task that one instance accepted and wrote to tasks.json is not
\* taken out of the file by a save of another instance: every task the file
\* has a record of is in the file after the next save, of either process.
C29_SaveKeepsTasks ==
    [][AllIds(LoadTasks(file)) \subseteq AllIds(LoadTasks(file'))]_vars


\* C30: over the whole history, kills and restarts included, add_torrent is
\* called once per source at most: a task for which add_torrent was called
\* is not found in Pending and dispatched again by a later process.
C30_DispatchedOnceOverAll ==
    [][IsDispatchCall => Head(pending_iter).source \notin CalledSources]_vars


\* A step that calls upload_file or upload_folder
IsUploadCall == pc = "finish" /\ IsUpload(last_call')

\* C31: over the ticks of one process the upload client is called once per
\* task at most: a finished download is not uploaded again by a later tick.
C31_UploadedOnce ==
    [][IsUploadCall => last_call'.task \notin uploads]_vars

====
